---------------------------- MODULE Spec2Model ----------------------------
(***************************************************************************)
(* Model of src/index.js: the deal selection run (main) with its history  *)
(* file, and the pure helpers it calls.                                    *)
(*                                                                         *)
(* A JavaScript string is a sequence of one-character strings, so that     *)
(* the regular expressions of the helpers are computed character by       *)
(* character.  Numbers that the code computes in floating point are kept  *)
(* as exact fractions [num, den].  null is the empty sequence and a       *)
(* present value v is <<v>>.                                               *)
(***************************************************************************)
EXTENDS Integers, Sequences, FiniteSets, TLC

(***************************************************************************)
(* Characters and character classes of the regular expressions            *)
(***************************************************************************)
UpperLetters == <<"A","B","C","D","E","F","G","H","I","J","K","L","M",
                  "N","O","P","Q","R","S","T","U","V","W","X","Y","Z">>
LowerLetters == <<"a","b","c","d","e","f","g","h","i","j","k","l","m",
                  "n","o","p","q","r","s","t","u","v","w","x","y","z">>
DigitChars == <<"0","1","2","3","4","5","6","7","8","9">>

Range(s) == {s[i] : i \in DOMAIN s}

DigitSet == Range(DigitChars)
WordSet == Range(UpperLetters) \cup Range(LowerLetters) \cup DigitSet \cup {"_"}
SpaceSet == {" ", "\t", "\n"}
LowerOf == [c \in Range(UpperLetters) |->
               LowerLetters[CHOOSE i \in DOMAIN UpperLetters : UpperLetters[i] = c]]
DigitValue == [c \in DigitSet |-> (CHOOSE i \in DOMAIN DigitChars : DigitChars[i] = c) - 1]

\* \d
IsDigit(c) == c \in DigitSet
\* \w  ([A-Za-z0-9_])
IsWordChar(c) == c \in WordSet
\* \s  (the white space that occurs in the modelled texts)
IsSpace(c) == c \in SpaceSet

\* String.prototype.toLowerCase on one character
LowerChar(c) == IF c \in DOMAIN LowerOf THEN LowerOf[c] ELSE c
toLowerCase(s) == [i \in DOMAIN s |-> LowerChar(s[i])]

\* s.slice(from - 1, to): the characters at the 1-based positions from..to,
\* as many of them as s has
Slice(s, from, to) ==
    LET hi == IF to > Len(s) THEN Len(s) ELSE to
    IN  IF from > hi THEN <<>> ELSE SubSeq(s, from, hi)

\* the decimal digits of a natural number, as a string
RECURSIVE DigitsOf(_)
DigitsOf(n) ==
    IF n < 10 THEN <<DigitChars[n + 1]>>
    ELSE DigitsOf(n \div 10) \o <<DigitChars[(n % 10) + 1]>>

\* the number a string of digits denotes ("" denotes 0)
RECURSIVE DigitsValue(_)
DigitsValue(s) ==
    IF s = <<>> THEN 0
    ELSE 10 * DigitsValue(Slice(s, 1, Len(s) - 1))
         + DigitValue[s[Len(s)]]

RECURSIVE Pow10(_)
Pow10(k) == IF k = 0 THEN 1 ELSE 10 * Pow10(k - 1)

\* length of the run of characters satisfying \d that starts at position i
RECURSIVE DigitRun(_, _)
DigitRun(s, i) ==
    IF i <= Len(s) /\ IsDigit(s[i]) THEN 1 + DigitRun(s, i + 1) ELSE 0

(***************************************************************************)
(* cleanTitle                                                              *)
(***************************************************************************)
\* length of the match of (\.\d+)? at position j
FractionLen(s, j) ==
    IF j <= Len(s) /\ s[j] = "." /\ DigitRun(s, j + 1) > 0
    THEN 1 + DigitRun(s, j + 1) ELSE 0

\* length of the match of /\$?\d+(\.\d+)?/ at position i, 0 when none
PriceMatchLen(s, i) ==
    LET start == IF s[i] = "$" THEN i + 1 ELSE i
        n == DigitRun(s, start)
    IN  IF n = 0 THEN 0
        ELSE (start - i) + n + FractionLen(s, start + n)

\* .replace(/\$?\d+(\.\d+)?/g, "")
RECURSIVE RemovePricesFrom(_, _)
RemovePricesFrom(s, i) ==
    IF i > Len(s) THEN <<>>
    ELSE LET m == PriceMatchLen(s, i)
         IN  IF m > 0 THEN RemovePricesFrom(s, i + m)
             ELSE <<s[i]>> \o RemovePricesFrom(s, i + 1)
RemovePrices(s) == RemovePricesFrom(s, 1)

PromoWords == << <<"f","r","e","e">>, <<"d","e","a","l">>, <<"s","a","v","e">>,
                 <<"o","f","f">>, <<"c","o","u","p","o","n">> >>

\* \b between positions i - 1 and i
WordBoundary(s, i) ==
    LET before == i > 1 /\ i - 1 <= Len(s) /\ IsWordChar(s[i - 1])
        after == i >= 1 /\ i <= Len(s) /\ IsWordChar(s[i])
    IN  before # after

\* length of the match of /\b(Free|Deal|Save|Off|Coupon)\b/i at position i
PromoMatchLen(s, i) ==
    LET Hits == {k \in DOMAIN PromoWords :
                    /\ i + Len(PromoWords[k]) - 1 <= Len(s)
                    /\ toLowerCase(Slice(s, i, i + Len(PromoWords[k]) - 1))
                          = PromoWords[k]
                    /\ WordBoundary(s, i)
                    /\ WordBoundary(s, i + Len(PromoWords[k]))}
    IN  IF Hits = {} THEN 0
        ELSE Len(PromoWords[CHOOSE k \in Hits : \A j \in Hits : k <= j])

\* .replace(/\b(Free|Deal|Save|Off|Coupon)\b/gi, "")
RECURSIVE RemovePromoFrom(_, _)
RemovePromoFrom(s, i) ==
    IF i > Len(s) THEN <<>>
    ELSE LET m == PromoMatchLen(s, i)
         IN  IF m > 0 THEN RemovePromoFrom(s, i + m)
             ELSE <<s[i]>> \o RemovePromoFrom(s, i + 1)
RemovePromo(s) == RemovePromoFrom(s, 1)

\* .replace(/\s+/g, " ")
RECURSIVE CollapseSpacesFrom(_, _)
CollapseSpacesFrom(s, i) ==
    IF i > Len(s) THEN <<>>
    ELSE IF IsSpace(s[i])
         THEN IF i > 1 /\ IsSpace(s[i - 1])
              THEN CollapseSpacesFrom(s, i + 1)
              ELSE <<" ">> \o CollapseSpacesFrom(s, i + 1)
         ELSE <<s[i]>> \o CollapseSpacesFrom(s, i + 1)
CollapseSpaces(s) == CollapseSpacesFrom(s, 1)

\* .trim()
Trim(s) ==
    LET Kept == {i \in DOMAIN s : ~IsSpace(s[i])}
    IN  IF Kept = {} THEN <<>>
        ELSE Slice(s, CHOOSE i \in Kept : \A j \in Kept : i <= j,
                      CHOOSE i \in Kept : \A j \in Kept : i >= j)

\* the promotional words removed before the prices
cleanTitlePromoFirst(t) == Trim(CollapseSpaces(RemovePrices(RemovePromo(t))))
cleanTitle(t) == Trim(CollapseSpaces(RemovePromo(RemovePrices(t))))

(***************************************************************************)
(* tokenOverlapScore                                                       *)
(***************************************************************************)
\* length of the run of characters satisfying \w that starts at position i
RECURSIVE WordRun(_, _)
WordRun(s, i) ==
    IF i <= Len(s) /\ IsWordChar(s[i]) THEN 1 + WordRun(s, i + 1) ELSE 0

\* the pieces of s.split(/\W+/) that pass filter(x => x.length > 2), as a Set
Tokens(s) ==
    LET Starts == {i \in DOMAIN s : IsWordChar(s[i]) /\ (i = 1 \/ ~IsWordChar(s[i - 1]))}
    IN  {Slice(s, i, i + WordRun(s, i) - 1) : i \in {j \in Starts : WordRun(s, j) > 2}}

Max(a, b) == IF a >= b THEN a ELSE b

\* a score that divides by the size of the first set
tokenOverlapScoreByFirst(a, b) ==
    LET A == Tokens(toLowerCase(a))
        B == Tokens(toLowerCase(b))
    IN  IF A = {} \/ B = {} THEN [num |-> 0, den |-> 1]
        ELSE [num |-> Cardinality(A \cap B), den |-> Cardinality(A)]
\* the fraction hit / Math.max(A.size, B.size); 0 is 0/1
tokenOverlapScore(a, b) ==
    LET A == Tokens(toLowerCase(a))
        B == Tokens(toLowerCase(b))
    IN  IF A = {} \/ B = {} THEN [num |-> 0, den |-> 1]
        ELSE [num |-> Cardinality(A \cap B),
              den |-> Max(Cardinality(A), Cardinality(B))]

(***************************************************************************)
(* parseMoney, buildCandidate, scoreCandidate, fit280                      *)
(***************************************************************************)
Null == <<>>
Some(v) == <<v>>

\* String(display || "").replace(/[^0-9.]/g, "")
MoneyChars(display) == SelectSeq(display, LAMBDA c : IsDigit(c) \/ c = ".")

\* Number(m) of a string of digits and dots; Null when it is NaN.  A finite
\* value is the fraction [num, den] with den a power of ten.
NumberOf(m) ==
    LET Dots == {i \in DOMAIN m : m[i] = "."}
    IN  IF m = <<>> THEN Some([num |-> 0, den |-> 1])
        ELSE IF Cardinality(Dots) > 1 \/ Cardinality(Dots) = Len(m) THEN Null
        ELSE IF Dots = {} THEN Some([num |-> DigitsValue(m), den |-> 1])
        ELSE LET d == CHOOSE i \in Dots : TRUE
             IN  Some([num |-> DigitsValue(Slice(m, 1, d - 1) \o Slice(m, d + 1, Len(m))),
                       den |-> Pow10(Len(m) - d)])

\* Number.isFinite(n) ? n : null
parseMoney(display) == NumberOf(MoneyChars(display))

\* a JavaScript number used as a condition
Truthy(n) == n # Null /\ n[1].num # 0

\* Math.round(((basis - price) / basis) * 100) for basis > price > 0
DiscountOf(price, basis) ==
    LET n == 100 * (basis.num * price.den - price.num * basis.den)
        d == basis.num * price.den
    IN  (2 * n + d) \div (2 * d)

\* item is the PA-API record: a missing field is "" (<<>>), a missing rank 0
buildCandidate(item, dealTitle) ==
    LET price == parseMoney(item.Price)
        basis == parseMoney(item.SavingBasis)
    IN  [asin |-> item.ASIN,
         title |-> item.Title,
         url |-> item.DetailPageURL,
         priceDisp |-> item.Price,
         basisDisp |-> item.SavingBasis,
         discountPct |->
             IF Truthy(price) /\ Truthy(basis)
                /\ basis[1].num * price[1].den > price[1].num * basis[1].den
             THEN Some(DiscountOf(price[1], basis[1])) ELSE Null,
         websiteRank |-> IF item.SalesRank # 0 THEN Some(item.SalesRank) ELSE Null,
         features |-> Slice(item.Features, 1, 2),
         img |-> item.Image,
         match |-> tokenOverlapScore(cleanTitle(dealTitle), item.Title),
         sourceTitle |-> dealTitle]

\* Math.log10 of a power of ten (the positive ranks of the modelled catalog
\* are powers of ten, where the logarithm is an integer)
RECURSIVE Log10(_)
Log10(n) == IF n < 10 THEN 0 ELSE 1 + Log10(n \div 10)

\* NaN, as the fraction 0/0: no fraction is less than it and it is less than
\* none, as the comparisons of JavaScript have it
NaN == [num |-> 0, den |-> 0]

\* the fraction matchScore + discountScore + rankScore.  c.websiteRank is a
\* condition that every number but 0 satisfies; Math.log10 of a negative
\* number is NaN, and so are Math.max(0, NaN) and a sum with NaN
scoreCandidate(c) ==
    LET discountScore == (IF c.discountPct = Null THEN 0 ELSE c.discountPct[1]) * 2
        ranked == c.websiteRank # Null /\ c.websiteRank[1] # 0
        rankScore == IF ranked
                     THEN Max(0, 100 - Log10(c.websiteRank[1]) * 20) ELSE 0
    IN  IF ranked /\ c.websiteRank[1] < 0 THEN NaN
        ELSE [num |-> c.match.num * 100 + (discountScore + rankScore) * c.match.den,
              den |-> c.match.den]

\* x < y for fractions with positive denominators
FracLess(x, y) == x.num * y.den < y.num * x.den

TweetLimit == 280
TweetKeep == 277

\* .replace(/\s+\S*$/, ""): cut at the start of the last run of white space
StripPartialWord(s) ==
    LET Spaces == {i \in DOMAIN s : IsSpace(s[i])}
    IN  IF Spaces = {} THEN s
        ELSE LET last == CHOOSE i \in Spaces : \A j \in Spaces : i >= j
                 first == CHOOSE i \in 1..last :
                              /\ \A k \in i..last : IsSpace(s[k])
                              /\ (i = 1 \/ ~IsSpace(s[i - 1]))
             IN  Slice(s, 1, first - 1)

\* a cut at the limit, with the ellipsis after it
fit280KeepsLimit(text) ==
    IF Len(text) <= TweetLimit THEN text
    ELSE StripPartialWord(Slice(text, 1, TweetLimit)) \o <<".", ".", ".">>
fit280(text) ==
    IF Len(text) <= TweetLimit THEN text
    ELSE StripPartialWord(Slice(text, 1, TweetKeep)) \o <<".", ".", ".">>

(***************************************************************************)
(* candidates.sort((a, b) => scoreCandidate(b) - scoreCandidate(a))        *)
(* Array.prototype.sort is stable.                                         *)
(***************************************************************************)
\* a sort that puts a candidate before those of equal score
InsertBeforeEqual(sorted, c) ==
    LET k == Cardinality({i \in DOMAIN sorted :
                 FracLess(scoreCandidate(c), scoreCandidate(sorted[i]))})
    IN  Slice(sorted, 1, k) \o <<c>> \o Slice(sorted, k + 1, Len(sorted))

InsertByScore(sorted, c) ==
    LET k == Cardinality({i \in DOMAIN sorted :
                 ~FracLess(scoreCandidate(sorted[i]), scoreCandidate(c))})
    IN  Slice(sorted, 1, k) \o <<c>> \o Slice(sorted, k + 1, Len(sorted))

RECURSIVE SortCandidates(_)
SortCandidates(cs) ==
    IF cs = <<>> THEN <<>>
    ELSE InsertByScore(SortCandidates(Slice(cs, 1, Len(cs) - 1)), cs[Len(cs)])

(***************************************************************************)
(* Configuration (CFG) and bounds of the model                             *)
(***************************************************************************)
\* CFG.MAX_FEED_ITEMS and CFG.MAX_CANDIDATES as set by the environment
MAX_FEED_ITEMS == 2
MAX_CANDIDATES == 2
\* the runs the model starts, and the entries still free in a history that
\* earlier runs have filled
MaxRuns == 2
Room == 0
\* the runs that overlapping invocations start
MaxRaceRuns == 3
\* the length of the titles that cleanTitle is called with exhaustively
MaxTitleLen == 4

\* feeds = [FRONT_RSS, POP_RSS, TREND_RSS]
FeedCount == 3
\* .slice(-500)
HistoryLimit == 500
\* the length of the history that earlier runs have filled
Prefill == HistoryLimit - Room

DISCLOSURE_HASHTAG == <<"#","a","d">>

\* CFG.MERCHANT_REGEX.test(title), the environment having set MERCHANT_REGEX
\* to (amazon|amzn|deal): the default (amazon|amzn) and one word more, which
\* lets through a title that cleanTitle empties
Contains(s, w) ==
    \E i \in 1..(Len(s) - Len(w) + 1) : Slice(s, i, i + Len(w) - 1) = w
MerchantTest(title) ==
    \/ Contains(toLowerCase(title), <<"a","m","a","z","o","n">>)
    \/ Contains(toLowerCase(title), <<"a","m","z","n">>)
    \/ Contains(toLowerCase(title), <<"d","e","a","l">>)

(***************************************************************************)
(* What the collaborators can answer.  An id is a string that the code     *)
(* only compares and tests for emptiness: it is kept as a TLA+ string.     *)
(***************************************************************************)
TitleTv == <<"a","m","z","n"," ","t","v">>
TitleOff == <<"A","m","a","z","o","n"," ","t","v"," ","$","5"," ","O","f","f">>
TitleHd == <<"A","M","Z","N"," ","h","d"," ","D","e","a","l">>
TitleEbay == <<"e","b","a","y"," ","t","v">>
\* a title of which cleanTitle leaves nothing
TitleDeal == <<"D","e","a","l"," ","$","5">>
\* the title and the id that the i-th earlier run recorded
OldTitle(i) == <<"a","m","z","n">> \o DigitsOf(i)
OldAsin(i) == "B" \o ToString(i)

\* the items a feed can hold (fetchDealsFromRss keeps title, link, pubDate;
\* main reads the title only)
FeedItem(t) == [title |-> t]

CatalogItem(asin, url, title, price, basis, rank) ==
    [ASIN |-> asin, DetailPageURL |-> url, Title |-> title, Price |-> price,
     SavingBasis |-> basis, SalesRank |-> rank, Features |-> <<>>, Image |-> <<>>]

\* recorded by the first earlier run; half price, rank 100
ItemOld == CatalogItem(OldAsin(1), <<"u">>, <<"a","m","z","n"," ","t","v">>,
                       <<"$","5","0","0",".","0","0">>, <<"$","1",",","0","0","0",".","0","0">>, 100)
\* a quarter off, rank 10, one token in three shared
ItemOled == CatalogItem("BX", <<"u">>, <<"a","m","z","n"," ","a","m","a","z","o","n"," ","o","l","e","d">>,
                        <<"$","7","5","0">>, <<"$","1","0","0","0">>, 10)
ItemOledTwin == CatalogItem("BU", <<"u">>, <<"a","m","a","z","o","n"," ","o","l","e","d"," ","A","M","Z","N">>,
                            <<"$","7","5">>, <<"$","1","0","0">>, 10)
\* no discount, no rank: two records of equal score
ItemPlain == CatalogItem("BY", <<"u">>, <<"a","m","z","n"," ","t","v">>, <<>>, <<>>, 0)
ItemTwin == CatalogItem("BZ", <<"u">>, <<"A","m","z","n"," ","t","v">>,
                        <<"$","1","0">>, <<>>, 0)
\* records that filtering discards although they would score highest
ItemNoAsin == CatalogItem("", <<"u">>, <<"a","m","z","n"," ","t","v">>,
                          <<"$","1">>, <<"$","1","0","0">>, 1)
ItemNoUrl == CatalogItem("BW", <<>>, <<"a","m","z","n"," ","t","v">>,
                         <<"$","1">>, <<"$","1","0","0">>, 1)
ItemWeak == CatalogItem("BV", <<"u">>, <<"a","m","z","n"," ","a","a","a"," ","b","b","b"," ","c","c","c"," ","d","d","d">>,
                        <<"$","1">>, <<"$","1","0","0">>, 1)

AnswerPlain == Some(<< ItemPlain, ItemTwin, ItemOled, ItemOledTwin >>)
AnswerOld == Some(<< ItemNoAsin, ItemWeak, ItemOld, ItemNoUrl >>)

\* What the three feeds answer during one run: Null when fetchDealsFromRss
\* rejects, else Some(feed.items).
FeedWorlds ==
    << << Null, Null, Null >>,
       << Null,
          Some(<< FeedItem(TitleEbay), FeedItem(TitleTv), FeedItem(TitleOff) >>),
          Some(<<>>) >>,
       << Some(<< FeedItem(OldTitle(1)), FeedItem(TitleHd) >>),
          Null,
          Some(<< FeedItem(TitleOff), FeedItem(TitleTv) >>) >>,
       << Some(<< FeedItem(TitleEbay) >>),
          Some(<< FeedItem(TitleOff) >>),
          Some(<< FeedItem(TitleTv), FeedItem(TitleTv) >>) >>,
       << Some(<< FeedItem(TitleEbay), FeedItem(TitleDeal) >>),
          Some(<< FeedItem(OldTitle(1)), FeedItem(TitleTv) >>),
          Some(<< FeedItem(TitleOff), FeedItem(TitleHd) >>) >> >>

\* What the catalog answers to the successive searches of one run: Null when
\* paapiSearchItems rejects, else Some(pa.SearchResult.Items).  A run that
\* searches more often is answered from the start again.
SearchWorlds ==
    << << Some(<<>>), Some(<<>>) >>,
       << Null, AnswerOld >>,
       << AnswerPlain, Null >>,
       << AnswerPlain, AnswerOld >>,
       << AnswerOld, AnswerPlain >> >>

\* one run's environment: what its feeds and its searches answer
Worlds == (DOMAIN FeedWorlds) \X (DOMAIN SearchWorlds)
\* the environments of overlapping runs
RaceWorlds == {<<3, 2>>, <<4, 4>>}

FeedAnswer(w, i) == FeedWorlds[w[1]][i]
SearchAnswer(w, k) ==
    SearchWorlds[w[2]][((k - 1) % Len(SearchWorlds[w[2]])) + 1]

\* the text generatePost returns
PostText == <<"t","v"," ","d","e","a","l">>

(***************************************************************************)
(* State                                                                   *)
(***************************************************************************)
Procs == {1, 2}

VARIABLES
    disk,       \* state.json: <<>> when the file is absent, else <<its content>>
    run,        \* per invocation of main: its position and its local variables
    trace,      \* per invocation: what was observed of it, and how it ended
    published,  \* every post the publishing service accepted, in order
    prevFail,   \* the last failed run, while runs in its environment follow it
                \* and none has saved
    nsaves,     \* saveState calls so far
    nruns,      \* invocations started so far
    calc        \* one call of a helper function: its name, arguments and result

vars == <<disk, run, trace, published, prevFail, nsaves, nruns, calc>>
\* the variables of main
mainVars == <<disk, run, trace, published, prevFail, nsaves, nruns>>
\* no helper is called on its own
NoCalc == [fn |-> "none", done |-> FALSE, args |-> <<>>, out |-> <<>>]

EmptyState == [usedAsins |-> <<>>, usedTitles |-> <<>>]

\* the history after Prefill successful runs of distinct deals
PrefilledState == [usedAsins |-> [i \in 1..Prefill |-> OldAsin(i)],
                   usedTitles |-> [i \in 1..Prefill |-> OldTitle(i)]]

loadState(file) == IF file = <<>> THEN EmptyState ELSE file[1]

\* Array.prototype.includes
Includes(s, x) == \E i \in DOMAIN s : s[i] = x

\* state.usedAsins.push(asin); state.usedTitles.push(title); both .slice(-500)
LastN(s, n) == IF Len(s) <= n THEN s ELSE SubSeq(s, Len(s) - n + 1, Len(s))
\* a truncation that keeps the oldest entries
RecordPickOldest(st, c) ==
    [usedAsins |-> Slice(Append(st.usedAsins, c.asin), 1, HistoryLimit),
     usedTitles |-> Slice(Append(st.usedTitles,
                                 IF c.sourceTitle # <<>> THEN c.sourceTitle ELSE c.title),
                          1, HistoryLimit)]
\* a history that records the catalog title of the pick
RecordPickCatalogTitle(st, c) ==
    [usedAsins |-> LastN(Append(st.usedAsins, c.asin), HistoryLimit),
     usedTitles |-> LastN(Append(st.usedTitles, c.title), HistoryLimit)]
\* a history whose titles are never truncated
RecordPickTitlesUnbounded(st, c) ==
    [usedAsins |-> LastN(Append(st.usedAsins, c.asin), HistoryLimit),
     usedTitles |-> Append(st.usedTitles,
                           IF c.sourceTitle # <<>> THEN c.sourceTitle ELSE c.title)]
\* a history one entry shorter than the limit
RecordPickShort(st, c) ==
    [usedAsins |-> LastN(Append(st.usedAsins, c.asin), HistoryLimit - 1),
     usedTitles |-> LastN(Append(st.usedTitles,
                                 IF c.sourceTitle # <<>> THEN c.sourceTitle ELSE c.title),
                          HistoryLimit - 1)]
RecordPick(st, c) ==
    [usedAsins |-> LastN(Append(st.usedAsins, c.asin), HistoryLimit),
     usedTitles |-> LastN(Append(st.usedTitles,
                                 IF c.sourceTitle # <<>> THEN c.sourceTitle ELSE c.title),
                          HistoryLimit)]

IdleRun == [pc |-> "idle", world |-> <<1, 1>>, dryRun |-> FALSE, state |-> EmptyState,
            items |-> <<>>, idx |-> 0, candidates |-> <<>>, picked |-> Null,
            finalText |-> <<>>]
\* outcome: how the run ended; loadVer, saveVer: the saveState calls made
\* before its loadState and up to its own saveState (0 without one); kept: the
\* items it retained; keywords: those of them with a keyword; searches: the
\* searches it made; posts, saves: its calls of postToX and of saveState;
\* discovered: its candidates in the order of discovery, while it holds a pick
IdleTrace == [outcome |-> "none", world |-> <<1, 1>>, loadVer |-> 0, saveVer |-> 0,
              kept |-> 0, keywords |-> 0, searches |-> 0, posts |-> 0, saves |-> 0,
              discovered |-> <<>>, picked |-> Null]

Init ==
    /\ \E n \in {0, Prefill} :
          /\ disk = IF n = 0 THEN <<>> ELSE <<PrefilledState>>
          /\ nsaves = n
          /\ published = [i \in 1..n |-> [asin |-> OldAsin(i), title |-> OldTitle(i),
                                         loadVer |-> i - 1]]
    /\ run = [p \in Procs |-> IdleRun]
    /\ trace = [p \in Procs |-> IdleTrace]
    /\ prevFail = Null
    /\ nruns = 0
    /\ calc = NoCalc

(***************************************************************************)
(* main, one action per resumption of the async function                   *)
(***************************************************************************)
\* the run ends (return, or the rejection that main().catch turns into exit 1)
Exit(p, out, pick, tr) ==
    /\ run' = [run EXCEPT ![p] = IdleRun]
    /\ trace' = [trace EXCEPT ![p] = [tr EXCEPT !.outcome = out, !.picked = pick,
                                                !.discovered = <<>>]]
    /\ prevFail' = IF out = "failed"
                   THEN Some([world |-> run[p].world, loadVer |-> trace[p].loadVer,
                              picked |-> pick[1]])
                   ELSE prevFail

\* lines 246-253: loadState(), then the first feed is requested.  The
\* invocation takes the first free process slot.
Start(p) ==
    /\ run[p].pc = "idle"
    /\ \A q \in Procs : q < p => run[q].pc # "idle"
    /\ \E w \in Worlds, dry \in BOOLEAN :
          /\ run' = [run EXCEPT ![p] = [IdleRun EXCEPT !.pc = "feed", !.world = w,
                                            !.dryRun = dry,
                                            !.state = loadState(disk), !.idx = 1]]
          /\ trace' = [trace EXCEPT ![p] = [IdleTrace EXCEPT !.outcome = "running",
                                                !.world = w, !.loadVer = nsaves]]
          /\ prevFail' = IF prevFail # Null /\ prevFail[1].world = w
                         THEN prevFail ELSE Null
    /\ nruns' = nruns + 1
    /\ UNCHANGED <<disk, published, nsaves, calc>>

\* the cap applied to the feed items before they are filtered
FilterItemsCapFirst(items, state) ==
    SelectSeq(SelectSeq(Slice(items, 1, MAX_CANDIDATES),
                        LAMBDA it : MerchantTest(it.title)),
              LAMBDA it : ~Includes(state.usedTitles, it.title))
\* lines 261-263
FilterItems(items, state) ==
    Slice(SelectSeq(SelectSeq(items, LAMBDA it : MerchantTest(it.title)),
                    LAMBDA it : ~Includes(state.usedTitles, it.title)),
          1, MAX_CANDIDATES)

\* the first item at or after position from whose keyword is not empty
\* (lines 277-279), Len(items) + 1 when there is none
RECURSIVE NextSearch(_, _)
NextSearch(items, from) ==
    IF from > Len(items) THEN from
    ELSE IF cleanTitle(items[from].title) # <<>> THEN from
    ELSE NextSearch(items, from + 1)

\* lines 277-305: the loop goes on from item from with the candidates cands;
\* it stops at the next search, or ends and main sorts and picks
SearchLoop(p, items, from, cands, tr) ==
    LET k == NextSearch(items, from)
        sorted == SortCandidates(cands)
    IN  IF k <= Len(items)
        THEN /\ run' = [run EXCEPT ![p] = [@ EXCEPT !.pc = "search", !.items = items,
                                                    !.idx = k, !.candidates = cands]]
             /\ trace' = [trace EXCEPT ![p] = tr]
             /\ UNCHANGED prevFail
        ELSE IF cands = <<>>
        THEN Exit(p, "noCandidates", Null, tr)
        ELSE /\ run' = [run EXCEPT ![p] = [@ EXCEPT !.pc = "generate", !.items = items,
                                                    !.idx = k, !.candidates = sorted,
                                                    !.picked = Some(sorted[1])]]
             /\ trace' = [trace EXCEPT ![p] = [tr EXCEPT !.discovered = cands]]
             /\ UNCHANGED prevFail

\* lines 251-268: items holds what the feeds gave so far; after the last feed
\* main filters and either returns or enters the search loop
AfterFeed(p, items) ==
    LET kept == FilterItems(items, run[p].state)
    IN  IF run[p].idx < FeedCount
        THEN /\ run' = [run EXCEPT ![p] = [@ EXCEPT !.items = items, !.idx = @ + 1]]
             /\ UNCHANGED <<trace, prevFail>>
        ELSE IF kept = <<>>
        THEN Exit(p, "noItems", Null, trace[p])
        ELSE SearchLoop(p, kept, 1, <<>>,
                        [trace[p] EXCEPT !.kept = Len(kept),
                                         !.keywords = Cardinality({i \in DOMAIN kept :
                                                          cleanTitle(kept[i].title) # <<>>})])

\* fetchDealsFromRss(url) resolves: (feed.items || []).slice(0, MAX_FEED_ITEMS)
FeedReturns(p) ==
    /\ run[p].pc = "feed"
    /\ FeedAnswer(run[p].world, run[p].idx) # Null
    /\ AfterFeed(p, run[p].items
                      \o Slice(FeedAnswer(run[p].world, run[p].idx)[1], 1, MAX_FEED_ITEMS))
    /\ UNCHANGED <<disk, published, nsaves, nruns, calc>>

\* a failing feed that takes the items of the earlier feeds with it
FeedFailsDropsItems(p) ==
    /\ run[p].pc = "feed"
    /\ FeedAnswer(run[p].world, run[p].idx) = Null
    /\ AfterFeed(p, <<>>)
    /\ UNCHANGED <<disk, published, nsaves, nruns, calc>>

\* fetchDealsFromRss(url) rejects: caught, logged (lines 255-257)
FeedFails(p) ==
    /\ run[p].pc = "feed"
    /\ FeedAnswer(run[p].world, run[p].idx) = Null
    /\ AfterFeed(p, run[p].items)
    /\ UNCHANGED <<disk, published, nsaves, nruns, calc>>

\* lines 286-288: the three tests a candidate passes to be pushed
\* without the test of line 287
AcceptsUsed(c, state) ==
    /\ c.asin # "" /\ c.url # <<>>
    /\ ~(4 * c.match.num < c.match.den)
\* without the test of line 288
AcceptsWeak(c, state) ==
    /\ c.asin # "" /\ c.url # <<>>
    /\ ~Includes(state.usedAsins, c.asin)
Accepts(c, state) ==
    /\ c.asin # "" /\ c.url # <<>>
    /\ ~Includes(state.usedAsins, c.asin)
    /\ ~(4 * c.match.num < c.match.den)
\* lines 284-290: the candidates of one answer, in its order
Accepted(found, dealTitle, state) ==
    SelectSeq([i \in DOMAIN found |-> buildCandidate(found[i], dealTitle)],
              LAMBDA c : Accepts(c, state))

\* the number of searches the run has made when it waits for one
SearchNo(p) == Cardinality({i \in 1..run[p].idx :
                               cleanTitle(run[p].items[i].title) # <<>>})

\* paapiSearchItems(keyword) resolves with pa.SearchResult.Items
SearchReturns(p) ==
    /\ run[p].pc = "search"
    /\ SearchAnswer(run[p].world, SearchNo(p)) # Null
    /\ SearchLoop(p, run[p].items, run[p].idx + 1,
                  run[p].candidates
                     \o Accepted(SearchAnswer(run[p].world, SearchNo(p))[1],
                                 run[p].items[run[p].idx].title, run[p].state),
                  [trace[p] EXCEPT !.searches = @ + 1])
    /\ UNCHANGED <<disk, published, nsaves, nruns, calc>>

\* a failing search that is not caught
SearchFailsAborts(p) ==
    /\ run[p].pc = "search"
    /\ SearchAnswer(run[p].world, SearchNo(p)) = Null
    /\ run' = [run EXCEPT ![p] = IdleRun]
    /\ trace' = [trace EXCEPT ![p] = [@ EXCEPT !.outcome = "failed",
                                               !.searches = @ + 1]]
    /\ UNCHANGED <<prevFail, disk, published, nsaves, nruns, calc>>

\* paapiSearchItems(keyword) rejects: caught, logged (lines 291-293)
SearchFails(p) ==
    /\ run[p].pc = "search"
    /\ SearchAnswer(run[p].world, SearchNo(p)) = Null
    /\ SearchLoop(p, run[p].items, run[p].idx + 1, run[p].candidates,
                  [trace[p] EXCEPT !.searches = @ + 1])
    /\ UNCHANGED <<disk, published, nsaves, nruns, calc>>

\* a dry run that skips the post but not the history update
GenerateReturnsSavingDry(p) ==
    /\ run[p].pc = "generate"
    /\ IF run[p].dryRun
       THEN /\ Exit(p, "dryRun", run[p].picked, trace[p])
            /\ disk' = Some(RecordPick(run[p].state, run[p].picked[1]))
            /\ nsaves' = nsaves + 1
       ELSE /\ run' = [run EXCEPT ![p] =
                         [@ EXCEPT !.pc = "post",
                                   !.finalText = fit280(PostText \o <<" ">>
                                                    \o run[p].picked[1].url \o <<" ">>
                                                    \o DISCLOSURE_HASHTAG)]]
            /\ trace' = [trace EXCEPT ![p] = [@ EXCEPT !.posts = @ + 1]]
            /\ UNCHANGED <<prevFail, disk, nsaves>>
    /\ UNCHANGED <<published, nruns, calc>>

\* generatePost resolves (lines 305-316): the text is fitted; a dry run
\* returns, any other run calls postToX
GenerateReturns(p) ==
    /\ run[p].pc = "generate"
    /\ IF run[p].dryRun
       THEN Exit(p, "dryRun", run[p].picked, trace[p])
       ELSE /\ run' = [run EXCEPT ![p] =
                         [@ EXCEPT !.pc = "post",
                                   !.finalText = fit280(PostText \o <<" ">>
                                                    \o run[p].picked[1].url \o <<" ">>
                                                    \o DISCLOSURE_HASHTAG)]]
            /\ trace' = [trace EXCEPT ![p] = [@ EXCEPT !.posts = @ + 1]]
            /\ UNCHANGED prevFail
    /\ UNCHANGED <<disk, published, nsaves, nruns, calc>>

\* generatePost rejects: main rejects and the process exits with code 1
GenerateFails(p) ==
    /\ run[p].pc = "generate"
    /\ Exit(p, "failed", run[p].picked, trace[p])
    /\ UNCHANGED <<disk, published, nsaves, nruns, calc>>

\* the publishing service accepts the post; its answer is on the way
PostAccepted(p) ==
    /\ run[p].pc = "post"
    /\ run' = [run EXCEPT ![p] = [@ EXCEPT !.pc = "posted"]]
    /\ published' = Append(published, [asin |-> run[p].picked[1].asin,
                                       title |-> run[p].picked[1].sourceTitle,
                                       loadVer |-> trace[p].loadVer])
    /\ UNCHANGED <<disk, trace, prevFail, nsaves, nruns, calc>>

\* a history that is updated before the post is sent
PostFailsAfterSave(p) ==
    /\ run[p].pc = "post"
    /\ Exit(p, "failed", run[p].picked, trace[p])
    /\ disk' = Some(RecordPick(run[p].state, run[p].picked[1]))
    /\ nsaves' = nsaves + 1
    /\ UNCHANGED <<published, nruns, calc>>

\* a rejection of postToX that is caught, the run going on to record its pick
PostFailsIgnored(p) ==
    /\ run[p].pc = "post"
    /\ disk' = Some(RecordPick(run[p].state, run[p].picked[1]))
    /\ nsaves' = nsaves + 1
    /\ run' = [run EXCEPT ![p] = IdleRun]
    /\ trace' = [trace EXCEPT ![p] = [@ EXCEPT !.outcome = "saved",
                                               !.picked = run[p].picked,
                                               !.discovered = <<>>,
                                               !.saves = @ + 1,
                                               !.saveVer = nsaves + 1]]
    /\ prevFail' = Null
    /\ UNCHANGED <<published, nruns, calc>>

\* postToX rejects: main rejects and the process exits with code 1
PostFails(p) ==
    /\ run[p].pc = "post"
    /\ Exit(p, "failed", run[p].picked, trace[p])
    /\ UNCHANGED <<disk, published, nsaves, nruns, calc>>

\* a save that reads the file again and appends to what it holds now
RecordAndSaveMerging(p) ==
    /\ run[p].pc = "posted"
    /\ disk' = Some(RecordPick(loadState(disk), run[p].picked[1]))
    /\ nsaves' = nsaves + 1
    /\ run' = [run EXCEPT ![p] = IdleRun]
    /\ trace' = [trace EXCEPT ![p] = [@ EXCEPT !.outcome = "saved",
                                               !.picked = run[p].picked,
                                               !.discovered = <<>>,
                                               !.saves = @ + 1,
                                               !.saveVer = nsaves + 1]]
    /\ prevFail' = Null
    /\ UNCHANGED <<published, nruns, calc>>

\* postToX resolves (lines 317-324): the pick is recorded and the file written
RecordAndSave(p) ==
    /\ run[p].pc = "posted"
    /\ disk' = Some(RecordPick(run[p].state, run[p].picked[1]))
    /\ nsaves' = nsaves + 1
    /\ run' = [run EXCEPT ![p] = IdleRun]
    /\ trace' = [trace EXCEPT ![p] = [@ EXCEPT !.outcome = "saved",
                                               !.picked = run[p].picked,
                                               !.discovered = <<>>,
                                               !.saves = @ + 1,
                                               !.saveVer = nsaves + 1]]
    /\ prevFail' = Null
    /\ UNCHANGED <<published, nruns, calc>>

\* the steps of a run that has started
Step(p) ==
    \/ FeedReturns(p)
    \/ FeedFails(p)
    \/ SearchReturns(p)
    \/ SearchFails(p)
    \/ GenerateReturns(p)
    \/ GenerateFails(p)
    \/ PostAccepted(p)
    \/ PostFails(p)
    \/ RecordAndSave(p)

(***************************************************************************)
(* The helper functions called on their own: the arguments of one call are *)
(* drawn at the start, a step makes the call.                              *)
(***************************************************************************)
\* the price displays a catalog record can hold
PriceDisplays ==
    { <<>>, <<"$","0">>, <<"$","1">>, <<"$","0",".","0","1">>, <<"$","9","9",".","9","0">>,
      <<"$","1","0","0",".","0","0">>, <<"$","9","9","9">>, <<"$","1","0","0","0">>,
      <<"$","1",",","0","0","0",".","0","0">>, <<".">>, <<"1",".","2",".","3">>,
      <<"N","/","A">> }
\* the sales ranks a catalog record can hold (0: none)
SalesRanks == {0, 1, 100, 1000000, -1}
PricedItems ==
    { CatalogItem("BX", <<"u">>, TitleTv, price, basis, rank) :
          price \in PriceDisplays, basis \in PriceDisplays, rank \in SalesRanks }

\* the texts fit280 is called with: words of the letter x, of the lengths
\* FitLengths and with white space exactly at the positions of one of the
\* sets FitSpaces (those around the limit, and one far before it)
FitLengths == {0, 1, 279, 280, 281, 284}
FitSpaces == SUBSET {100, 276, 277, 278, 279}
FitText(n, S) == [i \in 1..n |-> IF i \in S THEN " " ELSE "x"]
FitTexts == { FitText(n, S) : n \in FitLengths, S \in FitSpaces }

\* the titles tokenOverlapScore is called with
OverlapTexts ==
    { <<>>,
      <<"t","v">>,
      <<"a","m","z","n"," ","t","v">>,
      <<"A","m","z","n"," ","o","l","e","d"," ","t","v">>,
      <<"A","M","Z","N"," ","h","d","r"," ","O","L","E","D">>,
      <<"o","l","e","d","-","h","d","r"," ","a","m","z","n","!">>,
      <<"a","m","z","n"," ","a","m","z","n">>,
      <<"t","v"," ","h","d">>,
      <<"a","_","b"," ","c">>,
      <<"E","c","h","o"," ","D","o","t"," ","(","t","h"," ","G","e","n",")">> }

\* the titles cleanTitle is called with: every string of at most MaxTitleLen
\* characters of TitleChars, and some longer ones
TitleChars == {"$", "1", ".", "O", "f", " "}
ShortTitles == UNION { [1..n -> TitleChars] : n \in 0..MaxTitleLen }
LongTitles ==
    { <<"A","m","a","z","o","n"," ","E","c","h","o"," ","D","o","t"," ","$","1","9",".","9","9"," ","D","e","a","l","!","!">>,
      <<"S","a","v","e"," ","$","$"," ","5"," ","n","o","w">>,
      <<"D","e","5","a","l"," ","O","f","f","-","D","e","a","l">>,
      <<"F","R","E","E"," ","c","o","u","p","o","n"," ","1",".","2",".","3"," ","x">>,
      <<"O","f","f","e","r"," ","_","D","e","a","l"," ","5","o","f","f">> }

Calls ==
    { <<"buildCandidate", <<item, TitleTv>> >> : item \in PricedItems }
    \cup { <<"cleanTitle", <<t>> >> : t \in ShortTitles \cup LongTitles }
    \cup { <<"tokenOverlapScore", <<a, b>> >> : a \in OverlapTexts, b \in OverlapTexts }
    \cup { <<"fit280", <<t>> >> : t \in FitTexts }

FunInit ==
    /\ disk = <<>> /\ nsaves = 0 /\ published = <<>>
    /\ run = [p \in Procs |-> IdleRun]
    /\ trace = [p \in Procs |-> IdleTrace]
    /\ prevFail = Null
    /\ nruns = 0
    /\ \E c \in Calls : calc = [fn |-> c[1], done |-> FALSE, args |-> c[2], out |-> <<>>]

Pending(fn) == calc.fn = fn /\ ~calc.done
Returned(fn) == calc.fn = fn /\ calc.done
Return(out) ==
    /\ calc' = [calc EXCEPT !.done = TRUE, !.out = out]
    /\ UNCHANGED mainVars

CallBuildCandidate ==
    /\ Pending("buildCandidate")
    /\ Return(buildCandidate(calc.args[1], calc.args[2]))

\* the candidate that was built is scored
CallScoreCandidate ==
    /\ Returned("buildCandidate")
    /\ calc' = [fn |-> "scoreCandidate", done |-> TRUE, args |-> <<calc.out>>,
                out |-> scoreCandidate(calc.out)]
    /\ UNCHANGED mainVars

CallFit280 ==
    /\ Pending("fit280")
    /\ Return(fit280(calc.args[1]))

\* the score of a and b, of b and a, and of a and itself
CallTokenOverlapScore ==
    /\ Pending("tokenOverlapScore")
    /\ Return([ab |-> tokenOverlapScore(calc.args[1], calc.args[2]),
               ba |-> tokenOverlapScore(calc.args[2], calc.args[1]),
               aa |-> tokenOverlapScore(calc.args[1], calc.args[1])])

\* the title cleaned, and the result cleaned again
CallCleanTitle ==
    /\ Pending("cleanTitle")
    /\ Return([once |-> cleanTitle(calc.args[1]),
               twice |-> cleanTitle(cleanTitle(calc.args[1]))])

FunNext ==
    \/ CallBuildCandidate
    \/ CallCleanTitle
    \/ CallTokenOverlapScore
    \/ CallScoreCandidate
    \/ CallFit280
FunSpec == FunInit /\ [][FunNext]_vars

\* Invocations that run to completion before the next one starts (the
\* scheduler's contract), MaxRuns of them: a run starts when no other is under
\* way.
OneAtATime == Cardinality({p \in Procs : run[p].pc # "idle"}) <= 1
SeqStart(p) == Start(p) /\ OneAtATime' /\ nruns < MaxRuns
SeqNext == \E p \in Procs : SeqStart(p) \/ Step(p)
SeqSpec == Init /\ [][SeqNext]_vars

\* Invocations that may overlap, MaxRaceRuns of them, each in one of the
\* environments RaceWorlds and none a dry run.
RaceBound == /\ nruns <= MaxRaceRuns
             /\ \A p \in Procs : run[p].pc # "idle" =>
                    run[p].world \in RaceWorlds /\ ~run[p].dryRun
RaceStart(p) == Start(p) /\ RaceBound'
RaceNext == \E p \in Procs : RaceStart(p) \/ Step(p)
RaceSpec == Init /\ [][RaceNext]_vars

(***************************************************************************)
(* Properties                                                              *)
(***************************************************************************)
History == loadState(disk)
HasPick(p) == run[p].pc \in {"generate", "post", "posted"}
Score(c) == scoreCandidate(c)

\* what the feeds 1..n of environment w gave
RECURSIVE FetchedUpTo(_, _)
FetchedUpTo(w, n) ==
    IF n = 0 THEN <<>>
    ELSE FetchedUpTo(w, n - 1)
         \o (IF FeedAnswer(w, n) = Null THEN <<>>
             ELSE Slice(FeedAnswer(w, n)[1], 1, MAX_FEED_ITEMS))

\* the search that items[n] gets, and the candidates that the answered
\* searches of items[1..n] bring
SearchNoOf(items, n) == Cardinality({i \in 1..n : cleanTitle(items[i].title) # <<>>})
RECURSIVE PoolUpTo(_, _, _, _)
PoolUpTo(items, w, state, n) ==
    IF n = 0 THEN <<>>
    ELSE PoolUpTo(items, w, state, n - 1)
         \o (IF cleanTitle(items[n].title) = <<>>
                \/ SearchAnswer(w, SearchNoOf(items, n)) = Null
             THEN <<>>
             ELSE Accepted(SearchAnswer(w, SearchNoOf(items, n))[1],
                           items[n].title, state))

\* C1: a run that ends without a pick (no fresh deal items, no valid
\* candidates) or as a dry run has not called saveState, and the history file
\* is as the run loaded it.
C1_NoPickKeepsHistory ==
    [][\A p \in Procs :
          (/\ run[p].pc # "idle" /\ run'[p].pc = "idle"
           /\ trace'[p].outcome \in {"noItems", "noCandidates", "dryRun"})
          => /\ disk' = disk
             /\ loadState(disk') = run[p].state
             /\ nsaves' = trace[p].loadVer
             /\ trace'[p].saveVer = 0]_vars
C1_Witness ==
    \E p \in Procs :
        /\ trace[p].outcome = "dryRun"
        /\ trace[p].picked # Null
        /\ Len(History.usedAsins) = Prefill

\* C2: a run in which text generation or publishing fails ends as failed
\* without a save, its pick is not in the history, and a following run in the
\* same environment picks the same candidate.
C2_FailedRunIsRepeated ==
    prevFail # Null =>
        /\ nsaves = prevFail[1].loadVer
        /\ ~Includes(History.usedAsins, prevFail[1].picked.asin)
        /\ ~Includes(History.usedTitles, prevFail[1].picked.sourceTitle)
        /\ \A p \in Procs :
              /\ (trace[p].outcome = "failed" /\ trace[p].loadVer = prevFail[1].loadVer)
                    => trace[p].saveVer = 0
              /\ (HasPick(p) /\ run[p].world = prevFail[1].world)
                    => run[p].picked = Some(prevFail[1].picked)
              /\ (trace[p].world = prevFail[1].world)
                    => trace[p].outcome \notin {"noItems", "noCandidates"}
C2_Witness ==
    /\ prevFail # Null
    /\ \E p \in Procs :
          /\ run[p].pc = "posted"
          /\ run[p].world = prevFail[1].world
          /\ run[p].picked = Some(prevFail[1].picked)

\* C3: the pick of a run is never a candidate whose id the history held when
\* the run loaded it, whatever its score.
C3_UsedIdNeverPicked ==
    \A p \in Procs :
        HasPick(p) => ~Includes(run[p].state.usedAsins, run[p].picked[1].asin)
C3_Witness ==
    \E p \in Procs :
        /\ HasPick(p)
        /\ \E n \in DOMAIN run[p].items :
              LET a == SearchAnswer(run[p].world, SearchNoOf(run[p].items, n))
              IN  /\ a # Null
                  /\ \E i \in DOMAIN a[1] :
                        /\ Includes(run[p].state.usedAsins, a[1][i].ASIN)
                        /\ FracLess(Score(run[p].picked[1]),
                                    Score(buildCandidate(a[1][i], run[p].items[n].title)))

\* C4: an id that is published was not published by any of the previous 500
\* accepted posts, so two posts of one id have at least 500 others between.
C4_NoRepeatWithinHistory ==
    [][Len(published') > Len(published) =>
          \A i \in DOMAIN published :
              i > Len(published) - HistoryLimit
                 => published[i].asin # published'[Len(published')].asin]_vars
C4_Witness ==
    \E j \in DOMAIN published :
        /\ j > HistoryLimit + 1
        /\ published[j].asin = published[j - HistoryLimit - 1].asin

\* C5: each history sequence has at most 500 entries and is exactly the last
\* 500 recorded insertions, in their order.
Recorded ==
    IF \E p \in Procs : run[p].pc = "posted"
    THEN Slice(published, 1, Len(published) - 1) ELSE published
Evicted == IF Len(Recorded) > HistoryLimit THEN Len(Recorded) - HistoryLimit ELSE 0
C5_HistoryIsLast500 ==
    /\ Len(History.usedAsins) <= HistoryLimit
    /\ Len(History.usedTitles) <= HistoryLimit
    /\ Len(History.usedAsins) = Len(Recorded) - Evicted
    /\ Len(History.usedTitles) = Len(Recorded) - Evicted
    /\ \A i \in DOMAIN History.usedAsins :
          History.usedAsins[i] = Recorded[Evicted + i].asin
    /\ \A i \in DOMAIN History.usedTitles :
          History.usedTitles[i] = Recorded[Evicted + i].title
C5_Witness ==
    /\ Evicted > 1
    /\ \A p \in Procs : run[p].pc = "idle"
    /\ Len(History.usedAsins) = HistoryLimit
    /\ History.usedAsins[1] = OldAsin(Evicted + 1)

\* C6: the pick has the highest score among the candidates that passed the
\* tests and is the first discovered among those of that score.
C6_PickIsFirstMaximum ==
    \A p \in Procs :
        HasPick(p) =>
            \E i \in DOMAIN trace[p].discovered :
                /\ trace[p].discovered[i] = run[p].picked[1]
                /\ \A j \in DOMAIN trace[p].discovered :
                      /\ ~FracLess(Score(run[p].picked[1]), Score(trace[p].discovered[j]))
                      /\ j < i => FracLess(Score(trace[p].discovered[j]),
                                           Score(run[p].picked[1]))
C6_Witness ==
    \E p \in Procs :
        /\ HasPick(p)
        /\ \E i, j, k \in DOMAIN trace[p].discovered :
              /\ trace[p].discovered[i] = run[p].picked[1]
              /\ i < j
              /\ Score(trace[p].discovered[j]).num * Score(run[p].picked[1]).den
                    = Score(run[p].picked[1]).num * Score(trace[p].discovered[j]).den
              /\ k < i
              /\ FracLess(run[p].picked[1].match, trace[p].discovered[k].match)

\* C7: every candidate in the pool, and so the pick, has an id, a url and a
\* match score of at least 0.25.
Selectable(c) == c.asin # "" /\ c.url # <<>> /\ 4 * c.match.num >= c.match.den
C7_PoolIsValid ==
    \A p \in Procs :
        /\ \A i \in DOMAIN run[p].candidates : Selectable(run[p].candidates[i])
        /\ run[p].picked # Null => Selectable(run[p].picked[1])
C7_Witness ==
    \E p \in Procs :
        /\ HasPick(p)
        /\ \E n \in DOMAIN run[p].items :
              LET a == SearchAnswer(run[p].world, SearchNoOf(run[p].items, n))
                  Built(i) == buildCandidate(a[1][i], run[p].items[n].title)
              IN  /\ a # Null
                  /\ \E i \in DOMAIN a[1] : Built(i).asin = ""
                  /\ \E i \in DOMAIN a[1] : Built(i).url = <<>>
                  /\ \E i \in DOMAIN a[1] :
                        4 * Built(i).match.num < Built(i).match.den
                  /\ \E i \in DOMAIN a[1] : Built(i) = run[p].picked[1]

\* C8: a failing search ends no run: every retained item is searched, and the
\* pool holds the candidates of every answered search, those before and those
\* after a failed one, in order.
C8_SearchFailureIsSkipped ==
    \A p \in Procs :
        /\ run[p].pc = "search" =>
              run[p].candidates
                 = PoolUpTo(run[p].items, run[p].world, run[p].state, run[p].idx - 1)
        /\ HasPick(p) =>
              trace[p].discovered
                 = PoolUpTo(run[p].items, run[p].world, run[p].state, Len(run[p].items))
        /\ trace[p].outcome = "failed" => trace[p].picked # Null
        /\ trace[p].outcome \notin {"none", "running", "noItems"} =>
              trace[p].searches = trace[p].keywords
C8_Witness ==
    \E p \in Procs :
        /\ HasPick(p)
        /\ Len(run[p].items) = 2
        /\ SearchAnswer(run[p].world, 1) = Null
        /\ run[p].picked[1].sourceTitle = run[p].items[2].title

\* C9: a failing feed ends no run: the items of the other feeds are kept and
\* filtered; when every feed fails the run ends with no pick, no post and no
\* save.
AllFeedsFail(w) == \A i \in 1..FeedCount : FeedAnswer(w, i) = Null
C9_FeedFailureIsSkipped ==
    \A p \in Procs :
        /\ run[p].pc = "feed" => run[p].items = FetchedUpTo(run[p].world, run[p].idx - 1)
        /\ (run[p].pc = "search" \/ HasPick(p)) =>
              run[p].items = FilterItems(FetchedUpTo(run[p].world, FeedCount), run[p].state)
        /\ (AllFeedsFail(trace[p].world) /\ trace[p].outcome \notin {"none", "running"}) =>
              /\ trace[p].outcome = "noItems"
              /\ trace[p].picked = Null
              /\ trace[p].saveVer = 0
              /\ nsaves = trace[p].loadVer
        /\ (AllFeedsFail(run[p].world) /\ run[p].pc # "idle") =>
              run[p].pc = "feed" /\ nsaves = trace[p].loadVer
C9_Witness ==
    \E p \in Procs :
        /\ run[p].pc = "posted"
        /\ FeedAnswer(run[p].world, 2) = Null
        /\ \E i, j \in DOMAIN run[p].items :
              /\ Includes(FeedAnswer(run[p].world, 1)[1], run[p].items[i])
              /\ Includes(FeedAnswer(run[p].world, 3)[1], run[p].items[j])
              /\ i # j

\* C10: when a run saves after another run whose save it did not load, the
\* file holds what the saving run loaded plus its own pick: the id the other
\* run recorded is lost.  Two runs that loaded the same file can publish the
\* same id.
SameView(p, q) ==
    /\ HasPick(p) /\ HasPick(q)
    /\ run[p].world = run[q].world
    /\ run[p].state = run[q].state
C10_OverlapLosesUpdate ==
    /\ [](\A p, q \in Procs : SameView(p, q) => run[p].picked = run[q].picked)
    /\ [][\A q \in Procs :
             (run[q].pc = "posted" /\ run'[q].pc = "idle") =>
                 \A p \in Procs \ {q} :
                     (/\ trace[p].outcome = "saved"
                      /\ trace[q].loadVer < trace[p].saveVer
                      /\ trace[p].picked[1].asin # run[q].picked[1].asin
                      /\ ~Includes(run[q].state.usedAsins, trace[p].picked[1].asin))
                     => ~Includes(loadState(disk').usedAsins, trace[p].picked[1].asin)]_vars
C10_Witness ==
    /\ \E i, j \in {k \in DOMAIN published : k > Len(published) - MaxRaceRuns} :
          /\ i < j
          /\ published[i].asin = published[j].asin
          /\ published[i].loadVer = published[j].loadVer
    /\ \E p, q \in Procs :
          /\ p # q
          /\ trace[p].outcome = "saved" /\ trace[q].outcome = "saved"
          /\ trace[q].loadVer < trace[p].saveVer
          /\ trace[p].loadVer < trace[q].saveVer
          /\ trace[q].saveVer = nsaves
          /\ ~Includes(History.usedAsins, trace[p].picked[1].asin)

\* C11: the save of a successful run adds one entry to each sequence of the
\* history it loaded, the id of the pick and the deal title the pick was
\* found for (neither the first item of the batch nor the catalog title), and
\* the title filter rejects that deal title from then on.
Saves(p) == run[p].pc = "posted" /\ run'[p].pc = "idle"
AppendedTo(old, new, x) ==
    LET drop == IF Len(old) + 1 > HistoryLimit THEN Len(old) + 1 - HistoryLimit ELSE 0
    IN  /\ Len(new) = Len(old) + 1 - drop
        /\ new[Len(new)] = x
        /\ \A i \in 1..(Len(new) - 1) : new[i] = old[i + drop]
C11_OwnTitleRecorded ==
    /\ [](\A p \in Procs :
             (run[p].pc = "search" \/ HasPick(p)) =>
                 \A i \in DOMAIN run[p].items :
                     ~Includes(run[p].state.usedTitles, run[p].items[i].title))
    /\ [][\A p \in Procs :
             Saves(p) =>
                 /\ AppendedTo(run[p].state.usedAsins, loadState(disk').usedAsins,
                               run[p].picked[1].asin)
                 /\ AppendedTo(run[p].state.usedTitles, loadState(disk').usedTitles,
                               run[p].picked[1].sourceTitle)
                 /\ \E i \in DOMAIN run[p].items :
                       run[p].items[i].title = run[p].picked[1].sourceTitle
                 /\ FilterItems(<<FeedItem(run[p].picked[1].sourceTitle)>>,
                                loadState(disk')) = <<>>]_vars
C11_Witness ==
    \E p \in Procs :
        /\ nsaves = 1
        /\ trace[p].outcome = "saved"
        /\ LET c == trace[p].picked[1]
               items == FilterItems(FetchedUpTo(trace[p].world, FeedCount), EmptyState)
           IN  /\ c.sourceTitle # items[1].title
               /\ c.sourceTitle # c.title
               /\ History.usedTitles = <<c.sourceTitle>>
               /\ History.usedAsins = <<c.asin>>

\* C12: the discountPct of a candidate that buildCandidate returns is absent
\* or an integer d with 0 < d <= 100.
C12_DiscountInRange ==
    Returned("buildCandidate") =>
        \/ calc.out.discountPct = Null
        \/ calc.out.discountPct[1] > 0 /\ calc.out.discountPct[1] <= 100

\* C13: when the text is longer than the limit and its first 277 characters
\* end with a complete word (the 277th is no white space, the 278th is),
\* fit280 returns those 277 characters followed by the ellipsis.
Ellipsis == <<".", ".", ".">>
C13_CompleteWordIsKept ==
    (/\ Returned("fit280")
     /\ Len(calc.args[1]) > TweetLimit
     /\ ~IsSpace(calc.args[1][TweetKeep])
     /\ IsSpace(calc.args[1][TweetKeep + 1]))
    => calc.out = Slice(calc.args[1], 1, TweetKeep) \o Ellipsis

\* C14: fit280 returns at most 280 characters, and its argument unchanged
\* when that has at most 280 characters, white space or none.
C14_FitsLimit ==
    Returned("fit280") =>
        /\ Len(calc.out) <= TweetLimit
        /\ Len(calc.args[1]) <= TweetLimit => calc.out = calc.args[1]
C14_Witness ==
    /\ Returned("fit280")
    /\ Len(calc.args[1]) > TweetLimit
    /\ \A i \in DOMAIN calc.args[1] : ~IsSpace(calc.args[1][i])
    /\ Len(calc.out) = TweetLimit

\* C15: tokenOverlapScore is symmetric, lies between 0 and 1, is 1 for a
\* string with a token of more than two characters and itself, is 0 when one
\* string is empty, and is |A \cap B| / max(|A|, |B|) for the sets A and B of
\* the lowercased tokens of more than two characters.
LongTokens(s) ==
    { Slice(toLowerCase(s), i, j) : <<i, j>> \in
          { ij \in (DOMAIN s) \X (DOMAIN s) :
               /\ ij[2] - ij[1] >= 2
               /\ \A k \in ij[1]..ij[2] : IsWordChar(s[k])
               /\ (ij[1] = 1 \/ ~IsWordChar(s[ij[1] - 1]))
               /\ (ij[2] = Len(s) \/ ~IsWordChar(s[ij[2] + 1])) } }
C15_OverlapLaws ==
    Returned("tokenOverlapScore") =>
        LET A == LongTokens(calc.args[1])
            B == LongTokens(calc.args[2])
            ab == calc.out.ab
        IN  /\ ab = calc.out.ba
            /\ 0 <= ab.num /\ ab.num <= ab.den /\ ab.den > 0
            /\ A # {} => calc.out.aa.num = calc.out.aa.den
            /\ (calc.args[1] = <<>> \/ A = {} \/ B = {}) => ab.num = 0
            /\ (A # {} /\ B # {}) =>
                  ab.num * Max(Cardinality(A), Cardinality(B))
                     = Cardinality(A \cap B) * ab.den
C15_Witness ==
    /\ Returned("tokenOverlapScore")
    /\ calc.out.ab.num > 0
    /\ calc.out.ab.num < calc.out.ab.den
    /\ Cardinality(LongTokens(calc.args[1])) < Cardinality(LongTokens(calc.args[2]))
    /\ calc.args[1] # toLowerCase(calc.args[1])

\* the word w stands at position i of s as a whole word, in any case
WholeWordAt(s, i, w) ==
    /\ i + Len(w) - 1 <= Len(s)
    /\ \A k \in DOMAIN w : LowerChar(s[i + k - 1]) = w[k]
    /\ (i = 1 \/ ~IsWordChar(s[i - 1]))
    /\ (i + Len(w) - 1 = Len(s) \/ ~IsWordChar(s[i + Len(w)]))
HasPromoWord(s) ==
    \E i \in DOMAIN s : \E k \in DOMAIN PromoWords : WholeWordAt(s, i, PromoWords[k])
HasDigit(s) == \E i \in DOMAIN s : IsDigit(s[i])
HasCurrencySymbol(s) == \E i \in DOMAIN s : s[i] = "$"

\* C16: cleanTitle is idempotent, and its result holds no digit, no currency
\* symbol and no whole-word occurrence of Free, Deal, Save, Off or Coupon.
C16_NormalizeStripsAll ==
    Returned("cleanTitle") =>
        /\ calc.out.twice = calc.out.once
        /\ ~HasDigit(calc.out.once)
        /\ ~HasCurrencySymbol(calc.out.once)
        /\ ~HasPromoWord(calc.out.once)
\* C16 as amended: cleanTitle is idempotent, and its result holds no digit
\* (so no currency symbol that a digit follows) and no whole-word occurrence
\* of Free, Deal, Save, Off or Coupon.
C16_NormalizeStripsPrices ==
    Returned("cleanTitle") =>
        /\ calc.out.twice = calc.out.once
        /\ ~HasDigit(calc.out.once)
        /\ \A i \in DOMAIN calc.out.once : PriceMatchLen(calc.out.once, i) = 0
        /\ ~HasPromoWord(calc.out.once)
C16_Witness ==
    /\ Returned("cleanTitle")
    /\ HasDigit(calc.args[1])
    /\ HasCurrencySymbol(calc.args[1])
    /\ HasPromoWord(calc.args[1])
    /\ HasCurrencySymbol(calc.out.once)
    /\ Len(calc.out.once) > 1

\* C17: the score is a number (never NaN), and the rank adds nothing to it
\* when the rank of the candidate is absent, zero or negative.
C17_RankScoreDefined ==
    Returned("scoreCandidate") =>
        LET c == calc.args[1]
            discount == IF c.discountPct = Null THEN 0 ELSE c.discountPct[1]
        IN  /\ calc.out # NaN
            /\ (c.websiteRank = Null \/ c.websiteRank[1] <= 0) =>
                  calc.out.num * c.match.den
                     = (c.match.num * 100 + discount * 2 * c.match.den) * calc.out.den

\* C18: a search is made only for an item whose title passes the merchant
\* test, is not in the usedTitles the run loaded and has a keyword; the
\* retained items are the first MAX_CANDIDATES of those that pass both
\* tests, so a run makes at most MAX_CANDIDATES searches and an item that
\* fails a test takes no place among them.
PassesFilters(it, state) ==
    MerchantTest(it.title) /\ ~Includes(state.usedTitles, it.title)
Passing(p) ==
    SelectSeq(FetchedUpTo(run[p].world, FeedCount),
              LAMBDA it : PassesFilters(it, run[p].state))
C18_SearchOnlyRetained ==
    \A p \in Procs :
        /\ trace[p].searches <= MAX_CANDIDATES
        /\ trace[p].searches <= trace[p].keywords
        /\ trace[p].keywords <= trace[p].kept
        /\ run[p].pc = "search" =>
              /\ PassesFilters(run[p].items[run[p].idx], run[p].state)
              /\ cleanTitle(run[p].items[run[p].idx].title) # <<>>
              /\ trace[p].searches = SearchNoOf(run[p].items, run[p].idx) - 1
        /\ (run[p].pc = "search" \/ HasPick(p)) =>
              /\ Len(run[p].items) <= MAX_CANDIDATES
              /\ Len(run[p].items) = Len(Passing(p)) \/ Len(run[p].items) = MAX_CANDIDATES
              /\ \A i \in DOMAIN run[p].items : run[p].items[i] = Passing(p)[i]
C18_Witness ==
    \E p \in Procs :
        /\ HasPick(p)
        /\ Len(Passing(p)) > MAX_CANDIDATES
        /\ Len(run[p].items) = MAX_CANDIDATES
        /\ \E i \in DOMAIN run[p].items : cleanTitle(run[p].items[i].title) = <<>>
        /\ trace[p].searches = MAX_CANDIDATES - 1
        /\ LET fetched == FetchedUpTo(run[p].world, FeedCount)
               last == CHOOSE j \in DOMAIN fetched :
                          /\ fetched[j] = run[p].items[Len(run[p].items)]
                          /\ \A k \in 1..(j - 1) : fetched[k] # fetched[j]
           IN  /\ \E j \in 1..(last - 1) : ~MerchantTest(fetched[j].title)
               /\ \E j \in 1..(last - 1) :
                     Includes(run[p].state.usedTitles, fetched[j].title)

\* C19: a run calls postToX at most once and saveState at most once, the save
\* only after its post was accepted and postToX returned; the history file
\* changes only by such a save, and every id in it was published.
PublishedBy(p, asin) ==
    \E j \in DOMAIN published :
        published[j].asin = asin /\ published[j].loadVer = trace[p].loadVer
C19_SaveOnlyAfterPublish ==
    /\ [](/\ \A p \in Procs :
               /\ trace[p].posts <= 1 /\ trace[p].saves <= 1
               /\ trace[p].saves = 1 =>
                     /\ trace[p].posts = 1
                     /\ trace[p].outcome = "saved"
                     /\ PublishedBy(p, trace[p].picked[1].asin)
               /\ run[p].pc \in {"post", "posted"} =>
                     trace[p].posts = 1 /\ trace[p].saves = 0
          /\ Range(History.usedAsins) \subseteq {published[j].asin : j \in DOMAIN published})
    /\ [][disk' # disk =>
             \E p \in Procs :
                 /\ Saves(p)
                 /\ PublishedBy(p, run[p].picked[1].asin)
                 /\ nsaves' = nsaves + 1
                 /\ loadState(disk').usedAsins[Len(loadState(disk').usedAsins)]
                       = run[p].picked[1].asin]_vars
C19_Witness ==
    \E p \in Procs :
        /\ trace[p].outcome = "saved"
        /\ trace[p].posts = 1 /\ trace[p].saves = 1
        /\ nsaves = Len(published)
        /\ History.usedAsins[Len(History.usedAsins)] = trace[p].picked[1].asin
        /\ published[Len(published)].asin = trace[p].picked[1].asin

\* C20: after any sequence of runs that do not overlap, the two history
\* sequences have the same length and the entries at one index were recorded
\* by the same run: every save appends the id and the title of the saving
\* run's pick at the same index and shifts both sequences alike.
Pairs(st) == [i \in DOMAIN st.usedAsins |-> <<st.usedAsins[i], st.usedTitles[i]>>]
C20_HistoriesAligned ==
    /\ [](/\ Len(History.usedAsins) = Len(History.usedTitles)
          /\ Range(Pairs(History))
                \subseteq {<<published[j].asin, published[j].title>> : j \in DOMAIN published})
    /\ [][disk' # disk =>
             \E p \in Procs :
                 /\ Saves(p)
                 /\ Len(loadState(disk').usedAsins) = Len(loadState(disk').usedTitles)
                 /\ AppendedTo(Pairs(History), Pairs(loadState(disk')),
                               <<run[p].picked[1].asin,
                                 IF run[p].picked[1].sourceTitle # <<>>
                                 THEN run[p].picked[1].sourceTitle
                                 ELSE run[p].picked[1].title>>)]_vars
C20_Witness ==
    /\ \A p \in Procs : run[p].pc = "idle"
    /\ Len(published) = 2 /\ nsaves = 2
    /\ published[1].loadVer = 0 /\ published[2].loadVer = 1
    /\ Pairs(History) = << <<published[1].asin, published[1].title>>,
                           <<published[2].asin, published[2].title>> >>
    /\ published[1].asin # published[2].asin
    /\ published[1].title # published[2].title

=============================================================================
